---- MODULE Spec2Model ----
(***************************************************************************)
(* Model of crates/ast/src/ast/expr.rs: the expression node of the AST,    *)
(* its operator tags (BinOpKind, UnOpKind) with their pure queries, the    *)
(* Display implementations of BinOp / UnOp, and the CallArgs constructors. *)
(*                                                                         *)
(* The file holds no mutable state: every operation is a pure function or  *)
(* a value constructor.  The state machine therefore records one call at a *)
(* time: which operation ran last (op), on which input (arg), and what it  *)
(* returned (res).  Inputs are drawn from bounded sets.                    *)
(***************************************************************************)
EXTENDS Integers, Sequences, FiniteSets, TLC

VARIABLES op, arg, res

vars == <<op, arg, res>>

----------------------------------------------------------------------------
(* Bounds of the input domains.                                            *)

\* source positions range over 0..MaxPos
MaxPos == 1
\* tuples of up to MaxTupleLen written positions
MaxTupleLen == 3
\* number of distinct identifier names
NumNames == 2

----------------------------------------------------------------------------
(* External primitives: Span, Ident, Ty (expr.rs lines 1-3).               *)

\* sulk_interface::Span: an opaque source range
Spans == {s \in [lo : 0..MaxPos, hi : 0..MaxPos] : s.lo <= s.hi}

Names == 1..NumNames

\* sulk_interface::Ident: an interned name with its span
Idents == [name : Names, span : Spans]

\* super::Ty: a type syntax node; only its span field is used by this file
TyNames == {"uint256", "address"}

Tys == [name : TyNames, span : Spans]

\* Option<T>
None == [tag |-> "None"]

Some(x) == [tag |-> "Some", val |-> x]

----------------------------------------------------------------------------
(* enum BinOpKind (lines 91-136) and its queries (lines 144-198).          *)

BinOpKind ==
    {"Lt", "Le", "Gt", "Ge", "Eq", "Ne", "Or", "And",
     "Shr", "Shl", "Sar", "BitAnd", "BitOr", "BitXor",
     "Add", "Sub", "Pow", "Mul", "Div", "Rem"}

\* the token written in the doc comment of each variant (lines 94-135)
BinOpKind_doc(k) ==
    CASE k = "Lt"     -> "<"
      [] k = "Le"     -> "<="
      [] k = "Gt"     -> ">"
      [] k = "Ge"     -> ">="
      [] k = "Eq"     -> "=="
      [] k = "Ne"     -> "!="
      [] k = "Or"     -> "||"
      [] k = "And"    -> "&&"
      [] k = "Shr"    -> ">>"
      [] k = "Shl"    -> "<<"
      [] k = "Sar"    -> ">>>"
      [] k = "BitAnd" -> "&"
      [] k = "BitOr"  -> "|"
      [] k = "BitXor" -> "^"
      [] k = "Add"    -> "+"
      [] k = "Sub"    -> "-"
      [] k = "Pow"    -> "**"
      [] k = "Mul"    -> "*"
      [] k = "Div"    -> "/"
      [] k = "Rem"    -> "%"

\* a to_str in which the two right shifts collide on one spelling
BinOpKind_to_str_Collide(k) ==
    CASE k = "Lt"     -> "<"
      [] k = "Le"     -> "<="
      [] k = "Gt"     -> ">"
      [] k = "Ge"     -> ">="
      [] k = "Eq"     -> "=="
      [] k = "Ne"     -> "!="
      [] k = "Or"     -> "||"
      [] k = "And"    -> "&&"
      [] k = "Sar"    -> ">>"
      [] k = "Shr"    -> ">>"
      [] k = "Shl"    -> "<<"
      [] k = "BitAnd" -> "&"
      [] k = "BitOr"  -> "|"
      [] k = "BitXor" -> "^"
      [] k = "Add"    -> "+"
      [] k = "Sub"    -> "-"
      [] k = "Pow"    -> "**"
      [] k = "Mul"    -> "*"
      [] k = "Div"    -> "/"
      [] k = "Rem"    -> "%"

\* BinOpKind::to_str
BinOpKind_to_str(k) ==
    CASE k = "Lt"     -> "<"
      [] k = "Le"     -> "<="
      [] k = "Gt"     -> ">"
      [] k = "Ge"     -> ">="
      [] k = "Eq"     -> "=="
      [] k = "Ne"     -> "!="
      [] k = "Or"     -> "||"
      [] k = "And"    -> "&&"
      [] k = "Sar"    -> ">>>"
      [] k = "Shr"    -> ">>"
      [] k = "Shl"    -> "<<"
      [] k = "BitAnd" -> "&"
      [] k = "BitOr"  -> "|"
      [] k = "BitXor" -> "^"
      [] k = "Add"    -> "+"
      [] k = "Sub"    -> "-"
      [] k = "Pow"    -> "**"
      [] k = "Mul"    -> "*"
      [] k = "Div"    -> "/"
      [] k = "Rem"    -> "%"

\* an assignable in which Pow sits in the true arm
assignable_WithPow(k) ==
    CASE k \in {"BitOr", "BitXor", "BitAnd", "Shl", "Shr", "Sar",
                "Add", "Sub", "Pow", "Mul", "Div", "Rem"} -> TRUE
      [] k \in {"Lt", "Le", "Gt", "Ge", "Eq", "Ne", "Or", "And"} -> FALSE

\* an assignable in which Sar is missing from the true arm
assignable_WithoutSar(k) ==
    CASE k \in {"BitOr", "BitXor", "BitAnd", "Shl", "Shr",
                "Add", "Sub", "Mul", "Div", "Rem"} -> TRUE
      [] k \in {"Lt", "Le", "Gt", "Ge", "Eq", "Ne", "Or", "And", "Sar", "Pow"} -> FALSE

\* BinOpKind::assignable
assignable(k) ==
    CASE k \in {"BitOr", "BitXor", "BitAnd", "Shl", "Shr", "Sar",
                "Add", "Sub", "Mul", "Div", "Rem"} -> TRUE
      [] k \in {"Lt", "Le", "Gt", "Ge", "Eq", "Ne", "Or", "And", "Pow"} -> FALSE

\* struct BinOp { span, kind }
BinOp(span, kind) == [span |-> span, kind |-> kind]

BinOps == {BinOp(s, k) : s \in Spans, k \in BinOpKind}

\* fmt::Formatter::write_str: appends to the formatter's output
write_str(f, s) == f \o s

\* a Display that pads the token with a trailing blank
BinOp_fmt_Padded(self, f) == write_str(f, BinOpKind_to_str(self.kind) \o " ")

\* impl fmt::Display for BinOp
BinOp_fmt(self, f) == write_str(f, BinOpKind_to_str(self.kind))

\* output already held by the formatter a node is displayed into
Formatters == {"", "x "}

----------------------------------------------------------------------------
(* enum UnOpKind (lines 207-225) and its queries (lines 233-259).          *)

UnOpKind == {"PreInc", "PreDec", "Not", "Neg", "BitNot", "PostInc", "PostDec"}

\* a to_str in which negation is spelled like the decrement
UnOpKind_to_str_NegDec(k) ==
    CASE k = "PreInc"  -> "++"
      [] k = "PreDec"  -> "--"
      [] k = "Not"     -> "!"
      [] k = "Neg"     -> "--"
      [] k = "BitNot"  -> "~"
      [] k = "PostInc" -> "++"
      [] k = "PostDec" -> "--"

\* UnOpKind::to_str
UnOpKind_to_str(k) ==
    CASE k = "PreInc"  -> "++"
      [] k = "PreDec"  -> "--"
      [] k = "Not"     -> "!"
      [] k = "Neg"     -> "-"
      [] k = "BitNot"  -> "~"
      [] k = "PostInc" -> "++"
      [] k = "PostDec" -> "--"

\* an is_prefix in which PostDec sits in the true arm
is_prefix_WithPostDec(k) ==
    CASE k \in {"PreInc", "PreDec", "Not", "Neg", "BitNot", "PostDec"} -> TRUE
      [] k \in {"PostInc"} -> FALSE

\* UnOpKind::is_prefix
is_prefix(k) ==
    CASE k \in {"PreInc", "PreDec", "Not", "Neg", "BitNot"} -> TRUE
      [] k \in {"PostInc", "PostDec"} -> FALSE

\* UnOpKind::is_postfix
is_postfix(k) == ~is_prefix(k)

\* struct UnOp { span, kind }
UnOp(span, kind) == [span |-> span, kind |-> kind]

UnOps == {UnOp(s, k) : s \in Spans, k \in UnOpKind}

\* impl fmt::Display for UnOp
UnOp_fmt(self, f) == write_str(f, UnOpKind_to_str(self.kind))

----------------------------------------------------------------------------
(* struct Expr, enum ExprKind (lines 11-82), enum CallArgs (261-284).      *)

\* struct Expr { span, kind }
Expr(span, kind) == [span |-> span, kind |-> kind]

\* ExprKind::Ident(Ident)
ExprKind_Ident(ident) == [tag |-> "Ident", ident |-> ident]

\* ExprKind::Type(Ty)
ExprKind_Type(ty) == [tag |-> "Type", ty |-> ty]

\* an Assign that loses its operator
ExprKind_Assign_NoOp(lhs, operator, rhs) ==
    [tag |-> "Assign", lhs |-> lhs, operator |-> None, rhs |-> rhs]

\* ExprKind::Assign(Box<Expr>, Option<BinOp>, Box<Expr>)
ExprKind_Assign(lhs, operator, rhs) ==
    [tag |-> "Assign", lhs |-> lhs, operator |-> operator, rhs |-> rhs]

\* a Tuple that keeps only the present elements
ExprKind_Tuple_Collapsed(slots) ==
    [tag |-> "Tuple", slots |-> SelectSeq(slots, LAMBDA x : x # None)]

\* ExprKind::Tuple(Vec<Option<Box<Expr>>>)
ExprKind_Tuple(slots) == [tag |-> "Tuple", slots |-> slots]

\* a from_ident that leaves the span at the zero position
from_ident_DummySpan(ident) ==
    Expr([lo |-> 0, hi |-> 0], ExprKind_Ident(ident))

\* Expr::from_ident
from_ident(ident) == Expr(ident.span, ExprKind_Ident(ident))

\* Expr::from_ty
from_ty(ty) == Expr(ty.span, ExprKind_Type(ty))

\* CallArgs::Unnamed(Vec<Box<Expr>>)
CallArgs_Unnamed(args) == [tag |-> "Unnamed", args |-> args]

\* CallArgs::Named(NamedArgList)
CallArgs_Named(args) == [tag |-> "Named", args |-> args]

\* Vec::new()
Vec_new == <<>>

\* a default that picks the named form
CallArgs_default_Named == CallArgs_Named(Vec_new)

\* impl Default for CallArgs
CallArgs_default == CallArgs_Unnamed(Vec_new)

\* CallArgs::empty
CallArgs_empty == CallArgs_Unnamed(Vec_new)

\* the sub-expressions larger nodes are built over: identifiers wrapped by
\* from_ident, at the first source position
Leaves == {from_ident(i) : i \in {j \in Idents : j.span = [lo |-> 0, hi |-> 0]}}

\* one written position of a tuple: an element or a hole
Slots == {None} \cup {Some(e) : e \in Leaves}

SlotSeqs == UNION {[1..n -> Slots] : n \in 0..MaxTupleLen}

\* the operator slot of an Assign
OptBinOps == {None} \cup {Some(o) : o \in BinOps}

\* positions of the holes of a slot sequence
Holes(slots) == {i \in 1..Len(slots) : slots[i] = None}

----------------------------------------------------------------------------
(* The calls: each action applies one operation to one input.              *)

Init ==
    /\ op = "none"
    /\ arg = None
    /\ res = None

FromIdent ==
    \E ident \in Idents :
        /\ op' = "from_ident"
        /\ arg' = ident
        /\ res' = from_ident(ident)

FromTy ==
    \E ty \in Tys :
        /\ op' = "from_ty"
        /\ arg' = ty
        /\ res' = from_ty(ty)

\* an Assign kind built by populating the variant directly
MkAssign ==
    \E lhs \in Leaves, operator \in OptBinOps, rhs \in Leaves :
        /\ op' = "assign"
        /\ arg' = [lhs |-> lhs, operator |-> operator, rhs |-> rhs]
        /\ res' = ExprKind_Assign(lhs, operator, rhs)

\* a Tuple kind built by populating the variant directly
MkTuple ==
    \E slots \in SlotSeqs :
        /\ op' = "tuple"
        /\ arg' = slots
        /\ res' = ExprKind_Tuple(slots)

CallArgsDefault ==
    /\ op' = "default"
    /\ arg' = None
    /\ res' = CallArgs_default

CallArgsEmpty ==
    /\ op' = "empty"
    /\ arg' = None
    /\ res' = CallArgs_empty

BinToStr ==
    \E k \in BinOpKind :
        /\ op' = "bin_to_str"
        /\ arg' = k
        /\ res' = BinOpKind_to_str(k)

BinAssignable ==
    \E k \in BinOpKind :
        /\ op' = "assignable"
        /\ arg' = k
        /\ res' = assignable(k)

BinDisplay ==
    \E self \in BinOps, f \in Formatters :
        /\ op' = "bin_display"
        /\ arg' = [f |-> f, self |-> self]
        /\ res' = BinOp_fmt(self, f)

UnToStr ==
    \E k \in UnOpKind :
        /\ op' = "un_to_str"
        /\ arg' = k
        /\ res' = UnOpKind_to_str(k)

UnIsPrefix ==
    \E k \in UnOpKind :
        /\ op' = "is_prefix"
        /\ arg' = k
        /\ res' = is_prefix(k)

UnIsPostfix ==
    \E k \in UnOpKind :
        /\ op' = "is_postfix"
        /\ arg' = k
        /\ res' = is_postfix(k)

UnDisplay ==
    \E self \in UnOps, f \in Formatters :
        /\ op' = "un_display"
        /\ arg' = [f |-> f, self |-> self]
        /\ res' = UnOp_fmt(self, f)

Next ==
    \/ FromIdent
    \/ FromTy
    \/ MkAssign
    \/ MkTuple
    \/ CallArgsDefault
    \/ CallArgsEmpty
    \/ BinToStr
    \/ BinAssignable
    \/ BinDisplay
    \/ UnToStr
    \/ UnIsPrefix
    \/ UnIsPostfix
    \/ UnDisplay

Spec == Init /\ [][Next]_vars

----------------------------------------------------------------------------
(* Properties.                                                             *)

TypeOK ==
    op \in {"none", "from_ident", "from_ty", "assign", "tuple", "default",
            "empty", "bin_to_str", "assignable", "bin_display", "un_to_str",
            "is_prefix", "is_postfix", "un_display"}

\* the operators assignable() puts in its true arm, as the claims list them
CompoundKinds ==
    {"BitOr", "BitXor", "BitAnd", "Shl", "Shr", "Sar",
     "Add", "Sub", "Mul", "Div", "Rem"}

\* C1: assignable() is total (always a boolean) and returns true for exactly
\* the 11 operators BitOr, BitXor, BitAnd, Shl, Shr, Sar, Add, Sub, Mul, Div,
\* Rem, and false for the comparison and logical operators and Pow.
C1_AssignablePartition ==
    op = "assignable" =>
        /\ arg \in BinOpKind
        /\ res \in BOOLEAN
        /\ res = (arg \in CompoundKinds)
        /\ arg \in {"Lt", "Le", "Gt", "Ge", "Eq", "Ne", "Or", "And", "Pow"}
              => res = FALSE

C1_Witness == op = "assignable" /\ arg = "Pow" /\ res = FALSE

\* C2 (as stated): BinOpKind has exactly 19 operators, 11 assignable and
\* exactly 8 not assignable.
C2_Original ==
    op = "assignable" =>
        /\ Cardinality(BinOpKind) = 19
        /\ Cardinality({k \in BinOpKind : assignable(k)}) = 11
        /\ Cardinality({k \in BinOpKind : ~assignable(k)}) = 8

\* C2 (amended): BinOpKind has exactly 20 operators, the 11 for which
\* assignable() is true plus exactly 9 for which it is false (the eight
\* comparison and logical operators, and Pow).
C2_TwentyOperators ==
    op = "assignable" =>
        /\ Cardinality(BinOpKind) = 20
        /\ {k \in BinOpKind : assignable(k)} = CompoundKinds
        /\ Cardinality({k \in BinOpKind : assignable(k)}) = 11
        /\ Cardinality({k \in BinOpKind : ~assignable(k)}) = 9
        /\ res = (arg \in CompoundKinds)

C2_Witness == op = "assignable" /\ arg = "Rem" /\ res = TRUE

\* C3: BinOpKind::to_str() returns a non-empty string, and no other variant
\* has the same spelling: the only kind the returned string maps back to is
\* the kind that produced it.
C3_ToStrRoundTrip ==
    op = "bin_to_str" =>
        /\ res # ""
        /\ Len(res) > 0
        /\ {k \in BinOpKind : BinOpKind_to_str(k) = res} = {arg}

C3_Witness == op = "bin_to_str" /\ arg = "Sar" /\ res = ">>>"

PrefixKinds == {"PreInc", "PreDec", "Not", "Neg", "BitNot"}

PostfixKinds == {"PostInc", "PostDec"}

\* C4: UnOpKind has exactly 7 variants; PreInc, PreDec, Not, Neg, BitNot are
\* prefix and PostInc, PostDec are postfix; for every variant exactly one of
\* is_prefix() and is_postfix() is true, is_postfix() being !is_prefix().
C4_PrefixPostfixPartition ==
    /\ op \in {"is_prefix", "is_postfix"} =>
          /\ Cardinality(UnOpKind) = 7
          /\ UnOpKind = PrefixKinds \cup PostfixKinds
          /\ arg \in UnOpKind
    /\ op = "is_prefix" =>
          /\ res = (arg \in PrefixKinds)
          /\ res = ~is_postfix(arg)
    /\ op = "is_postfix" =>
          /\ res = (arg \in PostfixKinds)
          /\ res = ~is_prefix(arg)

C4_Witness == op = "is_postfix" /\ arg = "PostDec" /\ res = TRUE

\* C5: UnOpKind::to_str() spells PreInc and PostInc "++" and PreDec and
\* PostDec "--"; the spelling together with the prefix/postfix position
\* identifies the kind: no other variant has both the same spelling and the
\* same position.
C5_SpellingAndPosition ==
    op = "un_to_str" =>
        /\ arg \in {"PreInc", "PostInc"} => res = "++"
        /\ arg \in {"PreDec", "PostDec"} => res = "--"
        /\ {k \in UnOpKind : /\ UnOpKind_to_str(k) = res
                             /\ is_prefix(k) = is_prefix(arg)} = {arg}

C5_Witness ==
    /\ op = "un_to_str" /\ arg = "PostInc" /\ res = "++"
    /\ UnOpKind_to_str("PreInc") = res

\* C6: from_ident(id) returns an expression of kind Ident(id) whose span is
\* id.span, and from_ty(ty) one of kind Type(ty) whose span is ty.span, for
\* every identifier, type and span; the wrapped value is unchanged.
C6_FromIdentFromTy ==
    /\ op = "from_ident" =>
          /\ arg \in Idents
          /\ res.kind.tag = "Ident"
          /\ res.kind.ident = arg
          /\ res.span = arg.span
    /\ op = "from_ty" =>
          /\ arg \in Tys
          /\ res.kind.tag = "Type"
          /\ res.kind.ty = arg
          /\ res.span = arg.span

C6_Witness ==
    /\ op = "from_ident"
    /\ arg.span = [lo |-> 0, hi |-> MaxPos]
    /\ res.span = [lo |-> 0, hi |-> MaxPos]

\* C7: CallArgs::empty() and CallArgs::default() return equal values, both
\* the Unnamed form with a zero-length argument sequence, never Named.
C7_EmptyEqualsDefault ==
    /\ op = "empty" =>
          /\ res = CallArgs_default
          /\ res.tag = "Unnamed" /\ res.tag # "Named"
          /\ Len(res.args) = 0
    /\ op = "default" =>
          /\ res = CallArgs_empty
          /\ res.tag = "Unnamed" /\ res.tag # "Named"
          /\ Len(res.args) = 0

C7_Witness == op = "default" /\ res.tag = "Unnamed" /\ res.args = <<>>

\* C8 (as stated): the operator slot of every Assign node that can be built
\* is absent or holds an operator whose kind satisfies assignable().
C8_Original ==
    (op = "assign" /\ res.tag = "Assign") =>
        \/ res.operator = None
        \/ assignable(res.operator.val.kind)

\* C8 (amended): the operator slot of an Assign node is absent (plain
\* assignment) or holds a binary operator of any of the BinOpKind variants,
\* stored exactly as given; the node does not restrict the operator to the
\* kinds that satisfy assignable(), so an Assign node can carry a
\* comparison, logical or Pow operator.
C8_AssignKeepsAnyOperator ==
    op = "assign" =>
        /\ res.tag = "Assign"
        /\ res.operator = arg.operator
        /\ \/ res.operator = None
           \/ /\ res.operator.tag = "Some"
              /\ res.operator.val.kind \in BinOpKind
        /\ res.lhs = arg.lhs
        /\ res.rhs = arg.rhs

C8_Witness ==
    /\ op = "assign"
    /\ res.operator # None
    /\ res.operator.val.kind = "Pow"
    /\ ~assignable(res.operator.val.kind)

\* the leaf expression for the identifier named n
Leaf(n) == from_ident([name |-> n, span |-> [lo |-> 0, hi |-> 0]])

\* C9: a Tuple keeps one slot per written position, each present or a hole:
\* (a,,b) has exactly the three slots [Some(a), None, Some(b)] and differs
\* from the two-slot tuple [Some(a), Some(b)]; a hole differs from a
\* zero-length sequence; tuples built from slot sequences of different
\* length or different hole positions are never equal.
C9_TupleKeepsHoles ==
    op = "tuple" =>
        /\ res.tag = "Tuple"
        /\ Len(res.slots) = Len(arg)
        /\ Holes(res.slots) = Holes(arg)
        /\ \A i \in 1..Len(arg) : res.slots[i] = arg[i]
        /\ \A other \in SlotSeqs :
              ExprKind_Tuple(other) = res
                  => Len(other) = Len(arg) /\ Holes(other) = Holes(arg)
        /\ arg = <<Some(Leaf(1)), None, Some(Leaf(2))>>
              => /\ Len(res.slots) = 3
                 /\ res # ExprKind_Tuple(<<Some(Leaf(1)), Some(Leaf(2))>>)
        /\ arg = <<None>> => res # ExprKind_Tuple(<<>>)

C9_Witness ==
    /\ op = "tuple"
    /\ arg = <<Some(Leaf(1)), None, Some(Leaf(2))>>
    /\ res.slots = <<Some(Leaf(1)), None, Some(Leaf(2))>>

\* C10: displaying a BinOp or a UnOp writes exactly kind.to_str() and nothing
\* else: what is appended to the formatter depends only on the kind (not on
\* the span), and for a BinOp it is the token documented on the variant.
C10_DisplayWritesToStr ==
    /\ op = "bin_display" =>
          /\ res = arg.f \o BinOpKind_to_str(arg.self.kind)
          /\ res = arg.f \o BinOpKind_doc(arg.self.kind)
          /\ \A s \in Spans : BinOp_fmt(BinOp(s, arg.self.kind), arg.f) = res
          /\ arg.self.kind = "Sar" => res = arg.f \o ">>>"
          /\ arg.self.kind = "Shr" => res = arg.f \o ">>"
          /\ arg.self.kind = "Pow" => res = arg.f \o "**"
    /\ op = "un_display" =>
          /\ res = arg.f \o UnOpKind_to_str(arg.self.kind)
          /\ \A s \in Spans : UnOp_fmt(UnOp(s, arg.self.kind), arg.f) = res

C10_Witness ==
    /\ op = "bin_display"
    /\ arg.self.kind = "Sar"
    /\ arg.self.span = [lo |-> 0, hi |-> MaxPos]
    /\ arg.f = ""
    /\ res = ">>>"

====
